---- MODULE Spec2Model ----
(***************************************************************************)
(* Model of src/src/background/main.js (class Main): the proxy-state       *)
(* orchestrator of secure-proxy and its serialising event entry point      *)
(* handleEvent.                                                            *)
(*                                                                         *)
(* Granularity.  JavaScript runs one task to completion: code between two  *)
(* awaits of an external collaborator (storage, host settings, fxa, net,   *)
(* ui) is atomic, and the continuation of an await of an already settled   *)
(* internal promise runs in the microtask checkpoint of the same task.     *)
(* One model step is therefore the code from one resumption (or from the   *)
(* call) up to the next external await; the pc of a flow names the         *)
(* external await it is suspended at.                                      *)
(***************************************************************************)
EXTENDS Integers, Sequences, FiniteSets, Bags, TLC

\* ------------------------------------------------------------------ bounds
\* Number of handleEvent calls issued in one behaviour.
MaxCalls == 3

\* ------------------------------------------------------- program constants
PROXY_STATE_LOADING         == "Loading"
PROXY_STATE_UNAUTHENTICATED == "Unauthenticated"
PROXY_STATE_CONNECTING      == "Connecting"
PROXY_STATE_ACTIVE          == "Active"
PROXY_STATE_INACTIVE        == "Inactive"
PROXY_STATE_OFFLINE         == "Offline"
PROXY_STATE_OTHERINUSE      == "OtherProxyInUse"
PROXY_STATE_AUTHFAILURE     == "AuthFailure"
PROXY_STATE_PROXYERROR      == "ProxyError"
PROXY_STATE_PROXYAUTHFAILED == "ProxyAuthFailed"

\* If run() fails, it is retriggered after this timeout (milliseconds).
RUN_TIMEOUT == 5000

\* The states computeProxyState keeps ("We want to keep these states").
StickyStates ==
  {PROXY_STATE_AUTHFAILURE, PROXY_STATE_PROXYERROR, PROXY_STATE_PROXYAUTHFAILED}

\* The event types handleEventInternal dispatches on, and one it does not know.
EventTypes ==
  {"authenticationFailed", "authenticationRequired", "connectivityChanged",
   "enableProxy", "managerAccountURL", "proxyAuthenticationFailed",
   "proxyGenericError", "proxySettingsChanged", "invalidEvent"}

\* The arguments of a handleEvent call: data stands for data.connectivity and
\* data.enabledState.  Only the switch of handleEventInternal reads them, so
\* the model draws them when the call reaches it, and no frame keeps them.
Events ==
  [type : {"connectivityChanged", "enableProxy"}, data : BOOLEAN]
    \cup [type : EventTypes \ {"connectivityChanged", "enableProxy"}, data : {FALSE}]

\* Values of proxySettings.value.proxyType the host can report.
ProxyTypes == {"none", "system", "manual", "autoConfig", "autoDetect"}

\* What storage can hold when the extension starts: nothing, or a value an
\* earlier session wrote.  Connecting and AuthFailure, which lines 170 and 198
\* also write, are read exactly as "undefined" is (neither Active nor Inactive).
StoredAtStart == {"undefined", PROXY_STATE_ACTIVE, PROXY_STATE_INACTIVE}

VARIABLES
  proxyState,     \* this.proxyState
  storedState,    \* the value StorageUtils.getProxyState() returns
  runTimeoutId,   \* this.runTimeoutId
  timers,         \* armed setTimeout(_ => this.run(), RUN_TIMEOUT): id -> delay
  handlingEvent,  \* this.handlingEvent
  pendingEvents,  \* this.pendingEvents: the queued calls' resolvers, by call id
  releases,       \* armed setTimeout(_ => pendingEvents.shift()(), 0) callbacks
  tests,          \* detached testProxyConnection() flows: bag of pcs
  calls,          \* the handleEvent calls, in arrival order: their frames
  runs,           \* run() flows started by the retry timer: bag of frames
  initFlow,       \* the frame of main.init()
  last            \* the step just taken: the event started, the host's answer

vars == <<proxyState, storedState, runTimeoutId, timers, handlingEvent,
          pendingEvents, releases, tests, calls, runs, initFlow, last>>

\* ------------------------------------------------------------ shared state
\* The fields of the Main object and of its collaborators that the blocks
\* below read and write, as one record.
G ==
  [proxyState |-> proxyState, storedState |-> storedState,
   runTimeoutId |-> runTimeoutId, timers |-> timers,
   handlingEvent |-> handlingEvent, pendingEvents |-> pendingEvents,
   releases |-> releases, tests |-> tests]

SetG(g) ==
  /\ proxyState' = g.proxyState
  /\ storedState' = g.storedState
  /\ runTimeoutId' = g.runTimeoutId
  /\ timers' = g.timers
  /\ handlingEvent' = g.handlingEvent
  /\ pendingEvents' = g.pendingEvents
  /\ releases' = g.releases
  /\ tests' = g.tests

\* A frame: the locals of one flow.  pc is the external await the flow is
\* suspended at; ret is the caller computeProxyState returns to; cur is
\* computeProxyState's currentState.  The pc "ui" stands for the last awaits
\* of a handler, which touch no state of Main: ui.update (lines 74, 173, 240,
\* 259), the storage and token resets of authFailure (198-199) and of
\* proxyAuthenticationFailed (225-230).
NewFrame == [pc |-> "new", ret |-> "-", cur |-> "-"]
DoneFrame == [pc |-> "done", ret |-> "-", cur |-> "-"]

\* The outcome of a block: the shared state, the frame, and whether the block
\* left by an exception.
Out(g, l, pc) == [g |-> g, l |-> [l EXCEPT !.pc = pc], exc |-> "-"]
Throw(g, l)   == [g |-> g, l |-> [l EXCEPT !.pc = "done"], exc |-> "handler"]

\* ------------------------------------------------------------- StateStore
setProxyState(g, s) == [g EXCEPT !.proxyState = s]

\* --------------------------------------------------------------- RetryTimer
clearTimeout(g, id) == [g EXCEPT !.timers = [t \in DOMAIN @ \ {id} |-> @[t]]]

\* setTimeout returns an id no armed timer has.  The program only stores the
\* id and hands it back to clearTimeout, so the model gives out the least id
\* that is not armed: an id that fired or was cleared may come back, and only
\* as the id of the timer runTimeoutId then names.
NewTimerId(g) ==
  CHOOSE i \in 1..(Cardinality(DOMAIN g.timers) + 1) :
    /\ i \notin DOMAIN g.timers
    /\ \A j \in 1..(i - 1) : j \in DOMAIN g.timers

setTimeoutRun(g, delay) ==
  LET id == NewTimerId(g)
  IN  [g EXCEPT !.runTimeoutId = id,
                !.timers = [t \in DOMAIN @ \cup {id} |->
                              IF t = id THEN delay ELSE @[t]]]

\* setOfflineAndStartRecoveringTimer without the clearTimeout of line 90.
setOfflineNoClear(g) ==
  setTimeoutRun(setProxyState(g, PROXY_STATE_OFFLINE), RUN_TIMEOUT)

setOfflineAndStartRecoveringTimer(g) ==
  LET g1 == setProxyState(g, PROXY_STATE_OFFLINE)
      g2 == clearTimeout(g1, g1.runTimeoutId)
  IN  setTimeoutRun(g2, RUN_TIMEOUT)

\* ------------------------------------------------------ computeProxyState
\* hasProxyInUse with autoDetect left out of the list of line 214.
hasProxyInUseNoAutoDetect(proxyType) == proxyType \in {"manual", "autoConfig"}

hasProxyInUse(proxyType) == proxyType \in {"manual", "autoConfig", "autoDetect"}

\* Lines 132-140 and the caller's continuation: run() awaits ui.update always,
\* enableProxy and proxySettingsChanged only when the state changed.
computeReturn(g, l) ==
  LET changed == l.cur # g.proxyState
      l1 == [l EXCEPT !.cur = "-", !.ret = "-"]
  IN  IF l.ret = "run" \/ changed THEN Out(g, l1, "ui") ELSE Out(g, l1, "done")

\* computeProxyState that keeps Offline as it keeps the states of lines
\* 105-107.
computeProxyStateKeepOffline(g, l, ret) ==
  LET currentState == g.proxyState
      g1 == IF currentState \notin StickyStates \cup {PROXY_STATE_OFFLINE}
            THEN setProxyState(g, PROXY_STATE_UNAUTHENTICATED) ELSE g
      kept == IF ret = "run" THEN "-" ELSE currentState
  IN  Out(g1, [l EXCEPT !.cur = kept, !.ret = ret], "cps_proxy")

\* Lines 95-113: up to the await of hasProxyInUse().  run() drops the value
\* computeProxyState returns, and inactiveSteps() touches nothing modelled
\* here, so the frame keeps currentState for the other two callers only.
computeProxyState(g, l, ret) ==
  LET currentState == g.proxyState
      g1 == IF currentState \notin StickyStates
            THEN setProxyState(g, PROXY_STATE_UNAUTHENTICATED) ELSE g
      kept == IF ret = "run" THEN "-" ELSE currentState
  IN  Out(g1, [l EXCEPT !.cur = kept, !.ret = ret], "cps_proxy")

\* Lines 113-120: hasProxyInUse() answered proxyType.
computeAfterProxy(g, l, proxyType) ==
  LET g1 == IF hasProxyInUse(proxyType)
            THEN setProxyState(g, PROXY_STATE_OTHERINUSE) ELSE g
  IN  IF g1.proxyState = PROXY_STATE_UNAUTHENTICATED
      THEN Out(g1, l, "cps_stored")
      ELSE computeReturn(g1, l)

\* Lines 120-123: StorageUtils.getProxyState() answered.
computeAfterStored(g, l) ==
  IF g.storedState = PROXY_STATE_INACTIVE
  THEN computeReturn(setProxyState(g, PROXY_STATE_INACTIVE), l)
  ELSE Out(g, l, "cps_tokens")

\* Line 128: testProxyConnection() runs up to its first await and is left alone.
startTest(g) == [g EXCEPT !.tests = @ (+) SetToBag({"t_test"})]

\* Lines 123-130: maybeGenerateTokens() answered ok.
computeAfterTokens(g, l, ok) ==
  IF ok
  THEN computeReturn(startTest(setProxyState(g, PROXY_STATE_CONNECTING)), l)
  ELSE computeReturn(g, l)

\* ------------------------------------------------------------------- run
run(g, l) == computeProxyState(clearTimeout(g, g.runTimeoutId), l, "run")

\* ------------------------------------------------------ event handlers
authFailure(g, l) ==
  LET g1 == setProxyState(g, PROXY_STATE_AUTHFAILURE)
  IN  Out([g1 EXCEPT !.storedState = g1.proxyState], l, "ui")

\* enableProxy with a guard (lines 161-166) that lets Offline through.
enableProxyFromOffline(g, l, value) ==
  IF g.proxyState \notin
       {PROXY_STATE_UNAUTHENTICATED, PROXY_STATE_ACTIVE, PROXY_STATE_INACTIVE,
        PROXY_STATE_CONNECTING, PROXY_STATE_OFFLINE}
  THEN Out(g, l, "done")
  ELSE LET ps == IF value THEN PROXY_STATE_CONNECTING ELSE PROXY_STATE_INACTIVE
       IN  Out([g EXCEPT !.storedState = ps], l, "en_stored")

enableProxy(g, l, value) ==
  IF /\ g.proxyState # PROXY_STATE_UNAUTHENTICATED
     /\ g.proxyState # PROXY_STATE_ACTIVE
     /\ g.proxyState # PROXY_STATE_INACTIVE
     /\ g.proxyState # PROXY_STATE_CONNECTING
  THEN Out(g, l, "done")
  ELSE LET ps == IF value THEN PROXY_STATE_CONNECTING ELSE PROXY_STATE_INACTIVE
       IN  Out([g EXCEPT !.storedState = ps], l, "en_stored")

auth(g, l) == Out(setProxyState(g, PROXY_STATE_UNAUTHENTICATED), l, "au_auth")

\* Lines 181-193: fxa.authenticate() settled.
authAfter(g, l, ok) ==
  IF ok
  THEN enableProxy(setProxyState(g, PROXY_STATE_INACTIVE), l, TRUE)
  ELSE authFailure(g, l)

\* onConnectivityChanged without the test of connectivity in line 207.
onConnectivityChangedAnyValue(g, l, connectivity) ==
  IF g.proxyState = PROXY_STATE_OFFLINE
  THEN run(g, l)
  ELSE Out(g, l, "done")

onConnectivityChanged(g, l, connectivity) ==
  IF g.proxyState = PROXY_STATE_OFFLINE /\ connectivity
  THEN run(g, l)
  ELSE Out(g, l, "done")

proxyAuthenticationFailed(g, l) ==
  IF /\ g.proxyState # PROXY_STATE_ACTIVE
     /\ g.proxyState # PROXY_STATE_CONNECTING
  THEN Out(g, l, "done")
  ELSE Out(setProxyState(g, PROXY_STATE_PROXYAUTHFAILED), l, "ui")

proxyGenericError(g, l) ==
  IF /\ g.proxyState # PROXY_STATE_ACTIVE
     /\ g.proxyState # PROXY_STATE_CONNECTING
  THEN Out(g, l, "done")
  ELSE Out(setProxyState(g, PROXY_STATE_PROXYERROR), l, "ui")

proxySettingsChanged(g, l) == computeProxyState(g, l, "psc")

handleEventInternal(g, l, type, data) ==
  CASE type = "authenticationFailed"      -> authFailure(g, l)
    [] type = "authenticationRequired"    -> auth(g, l)
    [] type = "connectivityChanged"       -> onConnectivityChanged(g, l, data)
    [] type = "enableProxy"               -> enableProxy(g, l, data)
    [] type = "managerAccountURL"         -> Out(g, l, "mgr")
    [] type = "proxyAuthenticationFailed" -> proxyAuthenticationFailed(g, l)
    [] type = "proxyGenericError"         -> proxyGenericError(g, l)
    [] type = "proxySettingsChanged"      -> proxySettingsChanged(g, l)
    [] OTHER                              -> Throw(g, l)

\* ------------------------------------------------------------ init, firstRun
\* Lines 50-57: StorageUtils.getProxyState() answered.
firstRun(g, l) ==
  IF g.storedState = PROXY_STATE_ACTIVE
  THEN Out(setProxyState(g, PROXY_STATE_ACTIVE), l, "ui")
  ELSE run(g, l)

\* ------------------------------------------------------------ resumptions
\* The inputs an external await can answer with.
Inputs(pc) ==
  CASE pc = "cps_proxy"  -> ProxyTypes
    [] pc = "cps_tokens" -> {"ok", "fail"}
    [] pc = "au_auth"    -> {"ok", "fail"}
    [] pc = "mgr"        -> {"ok", "fail"}
    [] pc = "t_test"     -> {"ok", "fail"}
    [] OTHER             -> {"-"}

\* The code of a flow from the await it is suspended at up to its next one.
Resume(g, l, inp) ==
  CASE l.pc = "fr_stored"  -> firstRun(g, l)
    [] l.pc = "cps_proxy"  -> computeAfterProxy(g, l, inp)
    [] l.pc = "cps_stored" -> computeAfterStored(g, l)
    [] l.pc = "cps_tokens" -> computeAfterTokens(g, l, inp = "ok")
    [] l.pc = "ui"         -> Out(g, l, "done")
    [] l.pc = "au_auth"    -> authAfter(g, l, inp = "ok")
    [] l.pc = "en_stored"  -> computeProxyState(g, l, "enable")
    [] l.pc = "mgr"        -> IF inp = "ok" THEN Out(g, l, "done") ELSE Throw(g, l)

\* ------------------------------------------------------ testProxyConnection
\* One resumption of a detached testProxyConnection() suspended at pc:
\* the shared state after it, and the pc it is suspended at next.
testProxyConnection(g, pc, inp) ==
  CASE pc = "t_test" ->
         IF inp = "ok"
         THEN [g |-> [g EXCEPT !.storedState = PROXY_STATE_ACTIVE], pc |-> "t_stored"]
         ELSE [g |-> setOfflineAndStartRecoveringTimer(g), pc |-> "done"]
    [] pc = "t_stored" ->
         [g |-> setProxyState(g, PROXY_STATE_ACTIVE), pc |-> "done"]

\* --------------------------------------------------------------- EventQueue
\* The epilogue without lines 292-295: nobody releases the next waiter.
handleEventEpilogueNoRelease(r) ==
  [g |-> [r.g EXCEPT !.handlingEvent = FALSE], l |-> DoneFrame, exc |-> r.exc]

\* Lines 285-297: the handler has settled (returned or thrown).
handleEventEpilogue(r) ==
  LET g1 == [r.g EXCEPT !.handlingEvent = FALSE]
      g2 == IF Len(g1.pendingEvents) > 0
            THEN [g1 EXCEPT !.releases = @ + 1] ELSE g1
  IN  [g |-> g2, l |-> DoneFrame, exc |-> r.exc]

\* handleEvent without the catch of line 288: an exception of the handler
\* leaves handleEvent at once, and the caller's promise is rejected.
handleEventAwaitNoCatch(r) ==
  IF r.exc = "handler"
  THEN [g |-> r.g, l |-> [DoneFrame EXCEPT !.pc = "rejected"], exc |-> r.exc]
  ELSE IF r.l.pc = "done" THEN handleEventEpilogue(r) ELSE r

\* A block of a handler ran inside handleEvent's try (lines 286-288): when it
\* settled the handler, by a return or by an exception the empty catch drops,
\* handleEvent goes on to its epilogue in the same task.
handleEventAwait(r) == IF r.l.pc = "done" THEN handleEventEpilogue(r) ELSE r

\* Lines 283-287: the call owns the queue and starts its handler.
handleEventStart(g, l, type, data) ==
  handleEventAwait(
    handleEventInternal([g EXCEPT !.handlingEvent = TRUE], l, type, data))

\* Lines 271-287: the call with arrival number id.
handleEvent(g, l, id, type, data) ==
  IF g.handlingEvent
  THEN Out([g EXCEPT !.pendingEvents = Append(@, id)], l, "queued")
  ELSE handleEventStart(g, l, type, data)

\* Line 294: the body of the deferred release, with a waiter to shift.
releaseNext(g) ==
  [g EXCEPT !.pendingEvents = Tail(@), !.releases = @ - 1]

\* ------------------------------------------------------------------ Init
Init ==
  /\ proxyState = PROXY_STATE_LOADING
  /\ storedState \in StoredAtStart
  /\ runTimeoutId = 0
  /\ timers = << >>
  /\ handlingEvent = FALSE
  /\ pendingEvents = << >>
  /\ releases = 0
  /\ tests = EmptyBag
  /\ calls = << >>
  /\ runs = EmptyBag
  /\ initFlow = [NewFrame EXCEPT !.pc = "fr_stored"]
  /\ last = [type |-> "-", data |-> FALSE, answer |-> "-", exc |-> "-"]

\* The record of a step, for the properties: the event a call was started
\* with (when the step started one), the proxy type the host answered (when
\* the step resumed hasProxyInUse), and where an exception was raised: in a
\* handler, or in the callback of a deferred release.  Every other answer of
\* a collaborator shows in the step's change of the state.
Step(pc, e, inp, exc) ==
  [type |-> e.type, data |-> e.data,
   answer |-> IF pc = "cps_proxy" THEN inp ELSE "-",
   exc |-> exc]

NoEvent == [type |-> "-", data |-> FALSE]

Suspended(l) == l.pc \notin {"queued", "done", "rejected"}

\* A flow nothing waits for (init, a run() of the retry timer) has nothing
\* left to do but await ui.update: it is over as far as the state goes.
Detached(l) == l.pc \in {"ui", "done"}

\* ----------------------------------------------------------------- actions
\* main.init() and firstRun(), one resumption.
InitStep ==
  /\ Suspended(initFlow)
  /\ \E inp \in Inputs(initFlow.pc) :
       LET r == Resume(G, initFlow, inp)
       IN  /\ SetG(r.g)
           /\ initFlow' = IF Detached(r.l) THEN DoneFrame ELSE r.l
           /\ last' = Step(initFlow.pc, NoEvent, inp, r.exc)
  /\ UNCHANGED <<calls, runs>>

\* A collaborator calls handleEvent(type, data).
Arrive ==
  /\ Len(calls) < MaxCalls
  /\ \E e \in (IF handlingEvent THEN {NoEvent} ELSE Events) :
       LET id == Len(calls) + 1
           r  == handleEvent(G, NewFrame, id, e.type, e.data)
       IN  /\ SetG(r.g)
           /\ calls' = Append(calls, r.l)
           /\ last' = Step("new", e, "-", r.exc)
  /\ UNCHANGED <<runs, initFlow>>

\* A suspended handler is resumed by the collaborator it awaits.
CallStep ==
  /\ \E id \in 1..Len(calls) :
       /\ Suspended(calls[id])
       /\ \E inp \in Inputs(calls[id].pc) :
            LET r == handleEventAwait(Resume(G, calls[id], inp))
            IN  /\ SetG(r.g)
                /\ calls' = [calls EXCEPT ![id] = r.l]
                /\ last' = Step(calls[id].pc, NoEvent, inp, r.exc)
  /\ UNCHANGED <<runs, initFlow>>

\* A deferred release fires: it shifts the first waiter and calls it, and the
\* waiter goes on in the microtask checkpoint of the same task.  With no
\* waiter left, shift() gives undefined and the call of it throws.
Release ==
  /\ releases > 0
  /\ IF Len(pendingEvents) > 0
     THEN \E e \in Events :
            LET id == Head(pendingEvents)
                r  == handleEventStart(releaseNext(G), calls[id], e.type, e.data)
            IN  /\ SetG(r.g)
                /\ calls' = [calls EXCEPT ![id] = r.l]
                /\ last' = Step("queued", e, "-", r.exc)
     ELSE /\ releases' = releases - 1
          /\ last' = Step("-", NoEvent, "-", "release")
          /\ UNCHANGED <<proxyState, storedState, runTimeoutId, timers,
                         handlingEvent, pendingEvents, tests, calls>>
  /\ UNCHANGED <<runs, initFlow>>

\* The retry timer fires: run() up to its first await.
TimerFire ==
  /\ \E id \in DOMAIN timers :
       LET r == run(clearTimeout(G, id), NewFrame)
       IN  /\ SetG(r.g)
           /\ runs' = runs (+) SetToBag({r.l})
           /\ last' = Step("new", NoEvent, "-", r.exc)
  /\ UNCHANGED <<calls, initFlow>>

\* A run() started by the retry timer is resumed.
RunStep ==
  /\ \E l \in BagToSet(runs) :
       \E inp \in Inputs(l.pc) :
         LET r == Resume(G, l, inp)
         IN  /\ SetG(r.g)
             /\ runs' = IF Detached(r.l)
                        THEN runs (-) SetToBag({l})
                        ELSE (runs (-) SetToBag({l})) (+) SetToBag({r.l})
             /\ last' = Step(l.pc, NoEvent, inp, r.exc)
  /\ UNCHANGED <<calls, initFlow>>

\* A detached testProxyConnection() is resumed.
TestStep ==
  /\ \E pc \in BagToSet(tests) :
       \E inp \in Inputs(pc) :
         LET g0 == [G EXCEPT !.tests = @ (-) SetToBag({pc})]
             r  == testProxyConnection(g0, pc, inp)
             g1 == IF r.pc = "done" THEN r.g
                   ELSE [r.g EXCEPT !.tests = @ (+) SetToBag({r.pc})]
         IN  /\ SetG(g1)
             /\ last' = Step(pc, NoEvent, inp, "-")
  /\ UNCHANGED <<calls, runs, initFlow>>

Next ==
  \/ InitStep
  \/ Arrive
  \/ CallStep
  \/ Release
  \/ TimerFire
  \/ RunStep
  \/ TestStep

Spec == Init /\ [][Next]_vars

\* The steps of the event queue and of the flows it serialises.  The detached
\* flows (TestStep, TimerFire, RunStep) write none of handlingEvent,
\* pendingEvents, releases and calls; here their collaborators (the network
\* of the connectivity test, and with it the retry timer no failed test arms)
\* stay silent, which keeps the behaviour graph of the progress property small.
QueueNext ==
  \/ InitStep
  \/ Arrive
  \/ CallStep
  \/ Release

\* The scheduling the claims about progress assume: a suspended handler is
\* resumed in the end (every handler terminates), and an armed setTimeout
\* callback fires in the end.
FairSpec == Init /\ [][QueueNext]_vars /\ WF_vars(CallStep) /\ WF_vars(Release)

\* ------------------------------------------------------------- properties
CallIds == 1..Len(calls)

\* The call's handler (handleEventInternal) has begun and has not settled.
InHandler(id) == calls[id].pc \notin {"queued", "done", "rejected"}

\* In the step at hand, handleEvent call id reached handleEventInternal: on
\* arrival with the queue free, or on its release from pendingEvents.
StartedNow(id) ==
  /\ id \in 1..Len(calls')
  /\ id > Len(calls) \/ calls[id].pc = "queued"
  /\ calls'[id].pc # "queued"

\* In the step at hand, the handler of call id was resumed.
ResumedNow(id) ==
  /\ id \in CallIds
  /\ InHandler(id)
  /\ calls'[id] # calls[id]

\* The flows suspended inside computeProxyState.
ComputePcs == {"cps_proxy", "cps_stored", "cps_tokens"}

FlowsAt(pcs) ==
  Cardinality({id \in CallIds : calls[id].pc \in pcs})
    + BagCardinality([f \in {x \in BagToSet(runs) : x.pc \in pcs} |-> runs[f]])
    + (IF initFlow.pc \in pcs THEN 1 ELSE 0)

InCompute == FlowsAt(ComputePcs)

\* In the step at hand, a testProxyConnection() learnt that its test failed.
TestFailedNow ==
  /\ CopiesIn("t_test", tests') < CopiesIn("t_test", tests)
  /\ CopiesIn("t_stored", tests') = CopiesIn("t_stored", tests)

\* C1: mutual exclusion of handleEvent: at most one handleEventInternal
\* invocation is in progress at any instant.
C1_MutualExclusion ==
  Cardinality({id \in CallIds : InHandler(id)}) <= 1

\* C2: strict FIFO handling: a call never begins its handler while a call
\* that arrived before it is still waiting in pendingEvents.
C2_StrictFifo ==
  \A i \in CallIds : \A j \in CallIds :
    (i < j /\ calls[i].pc = "queued") => calls[j].pc = "queued"

\* C3: a failure inside the wrapped handler does not corrupt the queue: when
\* the handler throws or rejects, the caller's promise is not rejected, the
\* busy flag is cleared, and with a waiter in pendingEvents a release is
\* scheduled, as after a handler that returned.
C3_FailureKeepsQueue ==
  last.exc = "handler" =>
    /\ ~handlingEvent
    /\ \A id \in CallIds : calls[id].pc # "rejected"
    /\ Len(pendingEvents) > 0 => releases > 0

\* C3's case: an unrecognised event type throws while a waiter is queued.
C3_Witness ==
  /\ last.exc = "handler"
  /\ last.type = "invalidEvent"
  /\ Len(pendingEvents) > 0
  /\ releases > 0

\* C4: queue progress: under FairSpec every caller suspended in pendingEvents
\* is resumed in the end and its handler runs.
C4_QueueProgress ==
  \A id \in 1..MaxCalls :
    (id \in CallIds /\ calls[id].pc = "queued")
      ~> (id \in CallIds /\ calls[id].pc # "queued")

\* C4's case: two callers wait while a third call is handled.
C4_Witness ==
  /\ Len(pendingEvents) = 2
  /\ \E id \in CallIds : InHandler(id)

\* C5: sticky-error preservation: with proxyState AuthFailure, ProxyError or
\* ProxyAuthFailed, no step of the handling of a proxySettingsChanged or a
\* connectivityChanged event changes proxyState.
C5_StickyPreserved ==
  [][\A id \in 1..Len(calls') :
       ( /\ proxyState \in StickyStates
         /\ \/ /\ StartedNow(id)
               /\ last'.type \in {"proxySettingsChanged", "connectivityChanged"}
            \/ /\ ResumedNow(id)
               /\ calls[id].ret \in {"psc", "run"} )
       => proxyState' = proxyState]_vars

\* C6: single outstanding retry: at most one retry timer is armed after every
\* step, and after a step in which a connectivity test failed exactly one
\* is, the one runTimeoutId names, with the delay RUN_TIMEOUT.
C6_SingleRetry ==
  [][/\ Cardinality(DOMAIN timers') <= 1
     /\ TestFailedNow =>
          /\ DOMAIN timers' = {runTimeoutId'}
          /\ timers'[runTimeoutId'] = RUN_TIMEOUT
          /\ proxyState' = PROXY_STATE_OFFLINE]_vars

\* C6's case: a retry timer is armed while a run() that an earlier retry
\* timer started is still going: at least two tests failed.
C6_Witness ==
  /\ Cardinality(DOMAIN timers) = 1
  /\ runs # EmptyBag
  /\ proxyState = PROXY_STATE_OFFLINE

\* C7: enable/disable guard: an enableProxy event handled in AuthFailure,
\* ProxyError, OtherProxyInUse or Offline changes neither proxyState nor the
\* persisted state, starts no recomputation and no connectivity test, and
\* its handler is over at once.
C7_EnableGuard ==
  [][\A id \in 1..Len(calls') :
       ( /\ StartedNow(id)
         /\ last'.type = "enableProxy"
         /\ proxyState \in {PROXY_STATE_AUTHFAILURE, PROXY_STATE_PROXYERROR,
                            PROXY_STATE_OTHERINUSE, PROXY_STATE_OFFLINE} )
       => /\ proxyState' = proxyState
          /\ storedState' = storedState
          /\ tests' = tests
          /\ timers' = timers
          /\ InCompute' = InCompute
          /\ calls'[id].pc = "done"]_vars

\* C7's case: enableProxy(true) was just handled in the Offline state.
C7_Witness ==
  /\ last.type = "enableProxy"
  /\ last.data
  /\ proxyState = PROXY_STATE_OFFLINE
  /\ Cardinality(DOMAIN timers) = 1

C9_ScenarioA ==
  [][( /\ storedState = PROXY_STATE_INACTIVE
       /\ \/ last'.answer \in {"none", "system"}
          \/ FlowsAt({"cps_stored"})' < FlowsAt({"cps_stored"}) )
     => /\ tests' = tests
        /\ FlowsAt({"cps_tokens"})' = FlowsAt({"cps_tokens"})
        /\ InCompute' < InCompute => proxyState' = PROXY_STATE_INACTIVE]_vars

\* In the step at hand, a recomputation was started (lines 95-113).
ComputeStartedNow == FlowsAt({"cps_proxy"})' > FlowsAt({"cps_proxy"})

\* In the step at hand, a recomputation got its tokens and started a test.
TokensOkNow == CopiesIn("t_test", tests') > CopiesIn("t_test", tests)

\* In the step at hand, a test succeeded and its flow went on to persist.
TestPersistedNow == CopiesIn("t_stored", tests') > CopiesIn("t_stored", tests)

\* In the step at hand, a test's flow came back from storage (line 147).
TestAppliedNow == CopiesIn("t_stored", tests') < CopiesIn("t_stored", tests)

\* C10: scenario B: proxyState goes through exactly Unauthenticated,
\* Connecting, Active: a recomputation started in a non-sticky state sets
\* Unauthenticated; the step in which its tokens arrive finds Unauthenticated
\* and sets Connecting; the step in which its test succeeds writes Active to
\* the persisted state and leaves proxyState alone; the step after that
\* finds Connecting and sets Active.
C10_ScenarioB ==
  [][/\ (ComputeStartedNow /\ proxyState \notin StickyStates)
          => proxyState' = PROXY_STATE_UNAUTHENTICATED
     /\ TokensOkNow
          => /\ proxyState = PROXY_STATE_UNAUTHENTICATED
             /\ proxyState' = PROXY_STATE_CONNECTING
     /\ TestPersistedNow
          => /\ storedState' = PROXY_STATE_ACTIVE
             /\ proxyState' = proxyState
     /\ TestAppliedNow
          => /\ proxyState = PROXY_STATE_CONNECTING
             /\ proxyState' = PROXY_STATE_ACTIVE]_vars

\* C11: scenario C: proxyState goes Unauthenticated, Connecting, Offline: the
\* step in which the test a recomputation started fails finds proxyState =
\* Connecting, as that recomputation left it, sets Offline, arms the one
\* retry timer with RUN_TIMEOUT and leaves the persisted state alone.
C11_ScenarioC ==
  [][TestFailedNow
       => /\ proxyState = PROXY_STATE_CONNECTING
          /\ proxyState' = PROXY_STATE_OFFLINE
          /\ DOMAIN timers' = {runTimeoutId'}
          /\ timers'[runTimeoutId'] = RUN_TIMEOUT
          /\ storedState' = storedState]_vars

\* C12: scenario D: a connectivityChanged event handled in Offline with
\* connectivity = true cancels the retry timer and starts run()'s full
\* recomputation; handled with connectivity = false or in any other state it
\* is over at once and leaves proxyState, the persisted state and the timers
\* unchanged.
C12_ScenarioD ==
  [][\A id \in 1..Len(calls') :
       (StartedNow(id) /\ last'.type = "connectivityChanged")
       => IF proxyState = PROXY_STATE_OFFLINE /\ last'.data
          THEN /\ timers' = << >>
               /\ calls'[id].pc = "cps_proxy"
               /\ calls'[id].ret = "run"
               /\ proxyState' = PROXY_STATE_UNAUTHENTICATED
               /\ storedState' = storedState
          ELSE /\ calls'[id].pc = "done"
               /\ InCompute' = InCompute
               /\ proxyState' = proxyState
               /\ storedState' = storedState
               /\ timers' = timers
               /\ runTimeoutId' = runTimeoutId]_vars

\* C12's case: connectivityChanged(true) was just handled in Offline: its
\* handler is inside run()'s recomputation and no timer is armed.
C12_Witness ==
  /\ last.type = "connectivityChanged"
  /\ last.data
  /\ proxyState = PROXY_STATE_UNAUTHENTICATED
  /\ timers = << >>
  /\ \E id \in CallIds : calls[id].pc = "cps_proxy" /\ calls[id].ret = "run"

\* C13: the persisted proxy state is always Active or Inactive: storage holds
\* what it held at start or one of these two values.
C13_PersistedIntent ==
  storedState \in {"undefined", PROXY_STATE_ACTIVE, PROXY_STATE_INACTIVE}

\* The handler of call id is in progress and has started no connectivity
\* test: it awaits fxa, the storage write of enableProxy, or a collaborator
\* inside its recomputation, which starts the test in its last step.
MidFlight(id) ==
  calls[id].pc \in {"mgr", "au_auth", "en_stored"} \cup ComputePcs

\* C14: mutations after start-up go through the serialised gate: once init()
\* is over, a step of a detached connectivity test or of a run() the retry
\* timer started changes neither proxyState nor the persisted state while
\* the handler of a handleEvent call (for another event: it did not start
\* that test) is in progress.
C14_SerializedGate ==
  [][( /\ initFlow.pc = "done"
       /\ \/ TestFailedNow
          \/ TestPersistedNow
          \/ TestAppliedNow
          \/ runs' # runs
       /\ \E id \in CallIds : MidFlight(id) )
     => /\ proxyState' = proxyState
        /\ storedState' = storedState]_vars

\* C15: a connectivity test that succeeds while proxyState is not Connecting
\* does not write the persisted state (and does not change proxyState).
C15_SuccessOnlyIfConnecting ==
  [][(TestPersistedNow /\ proxyState # PROXY_STATE_CONNECTING)
     => /\ storedState' = storedState
        /\ proxyState' = proxyState]_vars

\* C16: defensive cancel: after every step that starts a recomputation
\* (computeProxyState, from run, enableProxy or proxySettingsChanged) no
\* retry timer is armed.
C16_DefensiveCancel ==
  [][ComputeStartedNow => timers' = << >>]_vars

\* In the step at hand, call id handled (a part of) an authenticationRequired
\* or an enableProxy event: it started with one, or it went on from the await
\* of fxa.authenticate(), of the storage write of enableProxy, or inside the
\* recomputation of enableProxy.
AuthOrEnableNow(id) ==
  \/ /\ StartedNow(id)
     /\ last'.type \in {"authenticationRequired", "enableProxy"}
  \/ /\ ResumedNow(id)
     /\ \/ calls[id].pc \in {"au_auth", "en_stored"}
        \/ calls[id].ret = "enable"

\* C17: sticky error states are exited only by explicit user action: a step
\* that changes proxyState from AuthFailure, ProxyError or ProxyAuthFailed to
\* another value is a step of the handling of an authenticationRequired or
\* an enableProxy event.
C17_StickyExit ==
  [][(proxyState \in StickyStates /\ proxyState' # proxyState)
     => \E id \in 1..Len(calls') : AuthOrEnableNow(id)]_vars

\* C18: at most one connectivity test is in flight at any instant.
C18_SingleTest ==
  CopiesIn("t_test", tests) <= 1

\* C19: every deferred release finds a waiter: no release callback runs
\* against an empty pendingEvents.
C19_ReleaseFindsWaiter ==
  last.exc # "release"

\* C20: Offline is never a dead end: while proxyState is Offline the retry
\* timer runTimeoutId names is armed (and its callback calls run()).
C20_OfflineHasRetry ==
  proxyState = PROXY_STATE_OFFLINE => runTimeoutId \in DOMAIN timers

\* C20's case: Offline with its retry timer armed while another connectivity
\* test is still in flight.
C20_Witness ==
  /\ proxyState = PROXY_STATE_OFFLINE
  /\ DOMAIN timers = {runTimeoutId}
  /\ CopiesIn("t_test", tests) > 0

====
